---- MODULE Spec2Model ----
(***************************************************************************)
(* Model of jera: the freeze/thaw controller (frozen.py), the sentinel     *)
(* factory (sentinel.py), the undefined marker (undefined.py), the         *)
(* typed-attribute engines (typed.py, typedattrs.py) and the version       *)
(* parser (__about__.py).                                                  *)
(*                                                                         *)
(* Python objects are modelled by their attribute dictionaries.  A class   *)
(* has its own dictionary and a method resolution order; an instance has   *)
(* its own dictionary and a class.  Attribute lookup on an instance reads  *)
(* the instance dictionary first and then the dictionaries of the classes  *)
(* of the MRO, as object.__getattribute__ does for plain values.  Set      *)
(* objects live in a heap and are referred to by identity, so two          *)
(* dictionaries may hold the same set.                                     *)
(***************************************************************************)
EXTENDS Integers, Sequences, FiniteSets, TLC

(* ---------------------------------------------------------------------- *)
(* Bounds                                                                  *)
(* ---------------------------------------------------------------------- *)
MaxInstances == 1

(* ---------------------------------------------------------------------- *)
(* Names and values                                                        *)
(* ---------------------------------------------------------------------- *)
FROZEN_FLAG == "__frozen__"
THAWED_ATTRS == "__thawed_attrs__"
THAWED_DEFAULTS ==
    {"__frozen_setattr__", "__frozen_delattr__", "__new__", "thaw", "freeze", "__init__"}

Absent == "<absent>"
NoDecl == "<undeclared>"
NoClass == "<none>"
NoObj == "<none>"

ThawableRoot == "Thawable"
FrozenRoot == "Frozen"
ThawableClasses == {"Thawable", "A", "B"}
FrozenClasses == {"Frozen", "F", "G"}
Classes == ThawableClasses \cup FrozenClasses

InstNames == <<"i1", "i2", "i3", "i4">>
InstIds == {InstNames[n] : n \in 1..MaxInstances}

SetIds == {"set:Thawable", "set:A", "set:B", "set:S"}
OwnSet(c) == "set:" \o c
SharedSet == "set:S"

Keys == {FROZEN_FLAG, THAWED_ATTRS, "value", "foo"}

Base(c) ==
    CASE c = "A" -> "Thawable"
      [] c = "B" -> "A"
      [] c = "F" -> "Frozen"
      [] c = "G" -> "F"
      [] OTHER -> NoClass

MRO(c) ==
    CASE c = "B" -> <<"B", "A", "Thawable">>
      [] c = "A" -> <<"A", "Thawable">>
      [] c = "F" -> <<"F", "Frozen">>
      [] c = "G" -> <<"G", "F", "Frozen">>
      [] OTHER -> <<c>>

Truthy(v) == v \notin {"False", "None"}
IsBool(v) == v \in {"True", "False"}
IsSet(v) == v \in SetIds

EmptyDict == [k \in Keys |-> Absent]

None == "None"
NoThread == "<free>"
Threads == {"t1", "t2"}
\* the typed class and its objects
TypedFields == <<"a", "b">>
TypedInsts == {"x", "y"}
NoAttr == [compare |-> None, hash |-> None]
NoTyped == [engine |-> None, kind |-> None, a |-> NoAttr, b |-> NoAttr]
NoInst == [made |-> FALSE, a |-> Absent, b |-> Absent]
NoTable == [set |-> FALSE, attrs |-> <<>>]
\* typedattrs.py:41-42, and a class statement that declares no default
MissingValue == "MissingValue"
DefaultValue == "DefaultValue"
NoDefaults == [a |-> MissingValue, b |-> MissingValue]

\* a str is a sequence of characters; a None passed where a str may be is NoneStr
NoneStr == <<"<None>">>
NoArgs == [cls |-> None, name |-> NoneStr, module |-> NoneStr]
IdleThread == [pc |-> "idle", cls |-> None, name |-> NoneStr, module |-> NoneStr,
               repr |-> NoneStr, caller |-> NoneStr, key |-> NoneStr,
               sentinel |-> 0, ret |-> 0]

(* ---------------------------------------------------------------------- *)
(* State                                                                   *)
(* ---------------------------------------------------------------------- *)
VARIABLES
    defined,    \* the classes whose class statement has completed
    clsDict,    \* clsDict[c][k]: the own dictionary of class c
    heap,       \* heap[s]: the members of the set object s
    instCls,    \* instCls[i]: the class of instance i, NoClass before creation
    instDict,   \* instDict[i][k]: the own dictionary of instance i
    last,       \* the last operation and how it ended
    frames      \* the frames above the guard in the last set or delete made through
                \* a chain of calls, outermost first; empty for every other step

VARIABLES
    _sinstances,  \* sentinel.py: the registry, a function from keys to objects
    sobjs,        \* the Sentinel objects allocated so far, in order of allocation
    _lock,        \* sentinel.py: the thread holding _lock, NoThread when free
    thr,          \* thr[t]: the position and locals of thread t inside Sentinel.__new__
    uinstances,   \* the number of instances of UndefinedType
    sres          \* the last operation on a sentinel or on UNDEFINED and its result

VARIABLES
    tdecl,        \* the class statement of the typed class, NoTyped before it
    tattrs,       \* the class attribute __typed_class_attrs__, Absent before it is set
    tinst,        \* tinst[i]: the own dictionary of instance i of the typed class
    tres,         \* the last operation on the typed class or its instances
    tdefault,     \* tdefault[k]: what the Attribute of parameter k declares as default
    thooks,       \* the number of replace_defaults_hook wrappers around the class's __init__
    tstores,      \* the number of tables stored on the class so far
    tcalls        \* the number of calls of default_factory so far

frozenVars == <<defined, clsDict, heap, instCls, instDict, last, frames>>
markerVars == <<_sinstances, sobjs, _lock, thr, uinstances, sres>>
VARIABLES
    vstr,         \* the string Version.from_str is called with
    vres          \* the last operation on Version and its result

typedVars == <<tdecl, tattrs, tinst, tres, tdefault, thooks, tstores, tcalls>>
aboutVars == <<vstr, vres>>
vars == <<frozenVars, markerVars, typedVars, aboutVars>>

World == [cd |-> clsDict, hp |-> heap, ic |-> instCls, id |-> instDict]

Outcome(w, err, obj) == [w |-> w, err |-> err, obj |-> obj]

(* ---------------------------------------------------------------------- *)
(* Attribute lookup                                                        *)
(* ---------------------------------------------------------------------- *)
RECURSIVE LookupMRO(_, _, _)
LookupMRO(cd, mro, k) ==
    IF mro = <<>> THEN Absent
    ELSE IF cd[Head(mro)][k] # Absent THEN cd[Head(mro)][k]
    ELSE LookupMRO(cd, Tail(mro), k)

GetAttr(w, ref, k) ==
    IF ref \in InstIds
    THEN IF w.id[ref][k] # Absent THEN w.id[ref][k]
         ELSE LookupMRO(w.cd, MRO(w.ic[ref]), k)
    ELSE LookupMRO(w.cd, MRO(ref), k)

\* dir(cls) restricted to the names of Keys: the keys of the dictionaries of
\* the classes of the MRO
Dir(w, c) == {k \in Keys : LookupMRO(w.cd, MRO(c), k) # Absent}

(* ---------------------------------------------------------------------- *)
(* The guard                                                               *)
(* ---------------------------------------------------------------------- *)
\* The condition of `if ref.__frozen__ and co_name not in getattr(ref,
\* THAWED_ATTRS, ())`: "pass", or the exception its evaluation ends with.
FrozenCheck(w, ref, co_name) ==
    LET flag == GetAttr(w, ref, FROZEN_FLAG)
        thawed == GetAttr(w, ref, THAWED_ATTRS)
    IN  IF flag = Absent THEN "AttributeError"
        ELSE IF ~Truthy(flag) THEN "pass"
        ELSE IF thawed = Absent THEN "FrozenObjectError"
        ELSE IF ~IsSet(thawed) THEN "TypeError"
        ELSE IF co_name \notin w.hp[thawed] THEN "FrozenObjectError"
        ELSE "pass"

StoreAttr(w, ref, key, value) ==
    IF ref \in InstIds
    THEN [w EXCEPT !.id[ref][key] = value]
    ELSE [w EXCEPT !.cd[ref][key] = value]

OwnAttr(w, ref, key) ==
    IF ref \in InstIds THEN w.id[ref][key] ELSE w.cd[ref][key]

__frozen_setattr__(w, ref, co_name, key, value) ==
    LET chk == FrozenCheck(w, ref, co_name)
    IN  IF chk = "FrozenObjectError" THEN Outcome(w, chk, ref)
        ELSE IF chk # "pass" THEN Outcome(w, chk, NoObj)
        ELSE Outcome(StoreAttr(w, ref, key, value), "ok", NoObj)

__frozen_delattr__(w, ref, co_name, item) ==
    LET chk == FrozenCheck(w, ref, co_name)
    IN  IF chk = "FrozenObjectError" THEN Outcome(w, chk, ref)
        ELSE IF chk # "pass" THEN Outcome(w, chk, NoObj)
        ELSE IF OwnAttr(w, ref, item) = Absent THEN Outcome(w, "AttributeError", NoObj)
        ELSE Outcome(StoreAttr(w, ref, item, Absent), "ok", NoObj)

(* ---------------------------------------------------------------------- *)
(* Class statements                                                        *)
(* ---------------------------------------------------------------------- *)
\* The methods a class body declares besides __init__: the first user class
\* declares foo, the others declare none.
ClassBody(c) == IF c = "A" THEN [EmptyDict EXCEPT !["foo"] = "function"] ELSE EmptyDict

\* What a class body may assign to __frozen__ and to __thawed_attrs__.
\* "object" is a value that is no bool, "list" a value that is no set,
\* "literal" a set display {"foo"} written in the body, SharedSet a set
\* object bound to a module-level name.
FlagDecls == {NoDecl, "True", "False", "object"}
ThawedDecls == {NoDecl, "literal", SharedSet, "list"}
DeclaredNames == {"foo"}

\* FrozenMeta.__new__ without its `if not frozen` test
FrozenMeta__new__accepts_false(w, name, frozen_decl) ==
    LET frozen == IF frozen_decl = NoDecl THEN "True" ELSE frozen_decl
    IN  IF ~IsBool(frozen) THEN Outcome(w, "ValueError", NoObj)
        ELSE Outcome([w EXCEPT !.cd[name] = ClassBody(name)], "ok", NoObj)

\* FrozenMeta.__new__
FrozenMeta__new__(w, name, frozen_decl) ==
    LET frozen == IF frozen_decl = NoDecl THEN "True" ELSE frozen_decl
    IN  IF ~IsBool(frozen) THEN Outcome(w, "ValueError", NoObj)
        ELSE IF ~Truthy(frozen) THEN Outcome(w, "ValueError", NoObj)
        ELSE Outcome([w EXCEPT !.cd[name] = ClassBody(name)], "ok", NoObj)

\* ThawableMeta.__new__
ThawableMeta__new__(w, name, frozen_decl, thawed_decl) ==
    LET frozen == IF frozen_decl = NoDecl THEN "True" ELSE frozen_decl
        thawed == IF thawed_decl \in {NoDecl, "literal"} THEN OwnSet(name) ELSE thawed_decl
        members == IF thawed_decl = NoDecl THEN {}
                   ELSE IF thawed_decl = "literal" THEN DeclaredNames
                   ELSE w.hp[thawed]
    IN  IF ~IsBool(frozen) THEN Outcome(w, "ValueError", NoObj)
        ELSE IF ~IsSet(thawed) THEN Outcome(w, "ValueError", NoObj)
        ELSE Outcome([w EXCEPT !.hp[thawed] = members \cup THAWED_DEFAULTS,
                               !.cd[name] = [ClassBody(name) EXCEPT
                                                ![THAWED_ATTRS] = thawed,
                                                ![FROZEN_FLAG] = frozen]],
                     "ok", NoObj)

(* ---------------------------------------------------------------------- *)
(* freeze, thaw, is_frozen                                                 *)
(* ---------------------------------------------------------------------- *)
\* ThawableMeta.is_frozen: the value returned, or "AttributeError"
is_frozen(w, cls) ==
    LET frozen == GetAttr(w, cls, FROZEN_FLAG)
    IN  IF frozen \in {Absent, "None"} THEN "AttributeError" ELSE frozen

\* ThawableMeta.freeze without its test of strict and is_frozen()
freeze_unconditional(w, cls, strict) ==
    __frozen_setattr__(w, cls, "freeze", FROZEN_FLAG, "True")

\* ThawableMeta.freeze putting the whitelist back to the built-in defaults
freeze_resets_whitelist(w, cls, strict) ==
    IF strict /\ is_frozen(w, cls) = "AttributeError"
    THEN Outcome(w, "AttributeError", NoObj)
    ELSE IF strict /\ Truthy(is_frozen(w, cls))
    THEN Outcome(w, "FrozenError", NoObj)
    ELSE __frozen_setattr__([w EXCEPT !.hp[GetAttr(w, cls, THAWED_ATTRS)] = THAWED_DEFAULTS],
                            cls, "freeze", FROZEN_FLAG, "True")

\* ThawableMeta.freeze
freeze(w, cls, strict) ==
    IF strict /\ is_frozen(w, cls) = "AttributeError"
    THEN Outcome(w, "AttributeError", NoObj)
    ELSE IF strict /\ Truthy(is_frozen(w, cls))
    THEN Outcome(w, "FrozenError", NoObj)
    ELSE __frozen_setattr__(w, cls, "freeze", FROZEN_FLAG, "True")

\* ThawableMeta.thaw adding each name that resolves before it raises for
\* one that does not
thaw_adds_before_raising(w, cls, attrs_is_none, attrs, ensure_attrs) ==
    IF attrs_is_none
    THEN __frozen_setattr__(w, cls, "thaw", FROZEN_FLAG, "False")
    ELSE LET cur == GetAttr(w, cls, THAWED_ATTRS)
             found == IF ensure_attrs THEN attrs \cap Dir(w, cls) ELSE attrs
             w1 == [w EXCEPT !.hp[cur] = @ \cup found]
         IN  IF found # attrs THEN Outcome(w1, "AttributeError", NoObj)
             ELSE __frozen_setattr__(w1, cls, "thaw", THAWED_ATTRS, cur)

\* ThawableMeta.thaw; attrs_is_none stands for attrs=None
thaw(w, cls, attrs_is_none, attrs, ensure_attrs) ==
    IF attrs_is_none
    THEN __frozen_setattr__(w, cls, "thaw", FROZEN_FLAG, "False")
    ELSE IF ensure_attrs /\ \E attr \in attrs : attr \notin Dir(w, cls)
    THEN Outcome(w, "AttributeError", NoObj)
    ELSE LET cur == GetAttr(w, cls, THAWED_ATTRS)
         IN  IF cur = Absent THEN Outcome(w, "AttributeError", NoObj)
             ELSE IF ~IsSet(cur) THEN Outcome(w, "TypeError", NoObj)
             ELSE __frozen_setattr__([w EXCEPT !.hp[cur] = @ \cup attrs],
                                     cls, "thaw", THAWED_ATTRS, cur)

(* ---------------------------------------------------------------------- *)
(* Construction of an instance                                             *)
(* ---------------------------------------------------------------------- *)
\* The assignments `self.key = value` of an __init__ body, in order
RECURSIVE RunInit(_, _, _)
RunInit(w, self, body) ==
    IF body = <<>> THEN Outcome(w, "ok", NoObj)
    ELSE LET r == __frozen_setattr__(w, self, "__init__", body[1][1], body[1][2])
         IN  IF r.err # "ok" THEN r ELSE RunInit(r.w, self, Tail(body))

\* cls(...): object.__new__ and then __init__; the object is dropped when
\* __init__ raises
Construct(w, cls, self, body) ==
    LET r == RunInit([w EXCEPT !.ic[self] = cls], self, body)
    IN  IF r.err = "ok" THEN r ELSE Outcome(w, r.err, r.obj)

(* ---------------------------------------------------------------------- *)
(* The inputs the operations are tried with                                *)
(* ---------------------------------------------------------------------- *)
\* Names of calling functions: a built-in default, a method that can be
\* thawed, a method that is never thawed
Callers == {"__init__", "foo", "bar"}
\* Names given to thaw: a method of the class, a name that resolves on no class
ThawNames == {"foo", "asfb"}
MutKeys == {FROZEN_FLAG, "value"}
WriteVals(key) == IF key = FROZEN_FLAG THEN {"True", "False"} ELSE {"123"}
Writes == {kv \in MutKeys \X {"True", "False", "123"} : kv[2] \in WriteVals(kv[1])}
InitBodies ==
    {<<>>} \cup {<<kv>> : kv \in Writes}
           \cup {<<kv1, kv2>> : kv1 \in {<<"value", "123">>},
                                kv2 \in {kv \in Writes : kv[1] = FROZEN_FLAG}}
\* The two slots each guard function is bound to (frozen.py lines 138-139,
\* 181-182, 225-226)
SetSlots == {"__setattr__", "__setitem__"}
DelSlots == {"__delattr__", "__delitem__"}

Live == {i \in InstIds : instCls[i] # NoClass}
FreeInst == {InstNames[n] : n \in {m \in 1..MaxInstances :
                 /\ instCls[InstNames[m]] = NoClass
                 /\ \A j \in 1..(m-1) : instCls[InstNames[j]] # NoClass}}

Finish(op, ref, by, r) ==
    /\ clsDict' = r.w.cd
    /\ heap' = r.w.hp
    /\ instCls' = r.w.ic
    /\ instDict' = r.w.id
    /\ last' = [op |-> op, ref |-> ref, by |-> by, err |-> r.err, obj |-> r.obj]
    /\ UNCHANGED <<markerVars, typedVars, aboutVars>>

Done(op, ref, by, r) ==
    /\ Finish(op, ref, by, r)
    /\ frames' = <<>>

\* sentinel.py:35-36 and undefined.py:68-70 after import: an empty registry, a
\* free lock, and the one instance of UndefinedType made before its __new__
\* was replaced
InitMarkers ==
    /\ _sinstances = <<>>
    /\ sobjs = <<>>
    /\ _lock = NoThread
    /\ thr = [t \in Threads |-> IdleThread]
    /\ uinstances = 1
    /\ sres = [op |-> "import", args |-> NoArgs, arg |-> 0, ret |-> 0, err |-> "ok",
               val |-> None]

\* typed.py, typedattrs.py after import: no user class, no instance
InitTyped ==
    /\ tdecl = NoTyped
    /\ tattrs = NoTable
    /\ tinst = [i \in TypedInsts |-> NoInst]
    /\ tres = [op |-> "import", self |-> NoObj, other |-> NoObj, eq |-> None,
               hself |-> <<None>>, hother |-> <<None>>, err |-> "ok"]
    /\ tdefault = NoDefaults
    /\ thooks = 0
    /\ tstores = 0
    /\ tcalls = 0

(* ---------------------------------------------------------------------- *)
(* Initial state: the module has been imported, so Frozen and Thawable     *)
(* exist; SharedSet is a module-level set of the user                      *)
(* ---------------------------------------------------------------------- *)
InitObjects ==
    /\ defined = {ThawableRoot, FrozenRoot}
    /\ clsDict = [c \in Classes |->
                    IF c = ThawableRoot
                    THEN [EmptyDict EXCEPT ![THAWED_ATTRS] = OwnSet(ThawableRoot),
                                           ![FROZEN_FLAG] = "True"]
                    ELSE EmptyDict]
    /\ heap = [s \in SetIds |->
                    IF s = OwnSet(ThawableRoot) THEN THAWED_DEFAULTS
                    ELSE IF s = SharedSet THEN DeclaredNames
                    ELSE {}]
    /\ instCls = [i \in InstIds |-> NoClass]
    /\ instDict = [i \in InstIds |-> EmptyDict]
    /\ last = [op |-> "import", ref |-> NoObj, by |-> "<module>", err |-> "ok", obj |-> NoObj]
    /\ frames = <<>>
    /\ InitMarkers
    /\ InitTyped

\* __about__.py after import: no call of Version.from_str by the user yet
NoVersion == [op |-> "import", err |-> "ok", major |-> 0, minor |-> 0, serial |-> 0,
              stage |-> None]

InitAbout ==
    /\ vstr = <<>>
    /\ vres = NoVersion

Init == InitObjects /\ InitAbout

(* ---------------------------------------------------------------------- *)
(* Actions                                                                 *)
(* ---------------------------------------------------------------------- *)
\* class c(Base(c)): __frozen__ = frozen_decl; __thawed_attrs__ = thawed_decl
ClassThawable(c, frozen_decl, thawed_decl) ==
    /\ c \in ThawableClasses \ defined
    /\ Base(c) \in defined
    /\ LET r == ThawableMeta__new__(World, c, frozen_decl, thawed_decl)
       IN  /\ defined' = IF r.err = "ok" THEN defined \cup {c} ELSE defined
           /\ Done("class", c, "<module>", r)

ClassFrozen(c, frozen_decl) ==
    /\ c \in FrozenClasses \ defined
    /\ Base(c) \in defined
    /\ LET r == FrozenMeta__new__(World, c, frozen_decl)
       IN  /\ defined' = IF r.err = "ok" THEN defined \cup {c} ELSE defined
           /\ Done("class", c, "<module>", r)

\* self = c(...), the __init__ of c making the assignments of body
NewInstance(c, self, body) ==
    /\ c \in defined
    /\ self \in FreeInst
    /\ Done("new", self, "__init__", Construct(World, c, self, body))
    /\ UNCHANGED defined

\* setattr(ref, key, value) or ref[key] = value, in a function named co_name
SetAttr(slot, ref, co_name, key, value) ==
    /\ slot \in SetSlots
    /\ ref \in defined \cup Live
    /\ Done("set", ref, co_name, __frozen_setattr__(World, ref, co_name, key, value))
    /\ UNCHANGED defined

\* delattr(ref, item) or del ref[item], in a function named co_name
DelAttr(slot, ref, co_name, item) ==
    /\ slot \in DelSlots
    /\ ref \in defined \cup Live
    /\ Done("del", ref, co_name, __frozen_delattr__(World, ref, co_name, item))
    /\ UNCHANGED defined

Freeze(c, strict) ==
    /\ c \in defined \cap ThawableClasses
    /\ Done("freeze", c, "freeze", freeze(World, c, strict))
    /\ UNCHANGED defined

Thaw(c) ==
    /\ c \in defined \cap ThawableClasses
    /\ Done("thaw", c, "thaw", thaw(World, c, TRUE, {}, TRUE))
    /\ UNCHANGED defined

ThawAttrs(c, attrs, ensure_attrs) ==
    /\ c \in defined \cap ThawableClasses
    /\ Done("thaw_attrs", c, "thaw", thaw(World, c, FALSE, attrs, ensure_attrs))
    /\ UNCHANGED defined

Mutate(refs) ==
    \/ \E slot \in SetSlots, ref \in refs, co \in Callers, kv \in Writes :
          SetAttr(slot, ref, co, kv[1], kv[2])
    \/ \E slot \in DelSlots, ref \in refs, co \in Callers, k \in MutKeys :
          DelAttr(slot, ref, co, k)

FreezeThaw(cs) ==
    \/ \E c \in cs, strict \in BOOLEAN : Freeze(c, strict)
    \/ \E c \in cs : Thaw(c)
    \/ \E c \in cs, attrs \in (SUBSET ThawNames) \ {{}}, e \in BOOLEAN :
          ThawAttrs(c, attrs, e)

\* One user class of the thawable variant and its instances
Next ==
    \/ \E fd \in FlagDecls, td \in ThawedDecls : ClassThawable("A", fd, td)
    \/ \E i \in InstIds, body \in InitBodies : NewInstance("A", i, body)
    \/ Mutate({"A"} \cup InstIds)
    \/ FreezeThaw({"A"})

Spec == Init /\ [][Next]_vars

\* A user class of the thawable variant and a subclass of it
NextSub ==
    \/ \E c \in {"A", "B"}, fd \in FlagDecls, td \in ThawedDecls : ClassThawable(c, fd, td)
    \/ Mutate({"A", "B"})
    \/ FreezeThaw({"A", "B"})

SpecSub == Init /\ [][NextSub]_vars

\* The strict variant: Frozen, two user subclasses of it and their instances
NextStrict ==
    \/ \E c \in {"F", "G"}, fd \in FlagDecls : ClassFrozen(c, fd)
    \/ \E c \in FrozenClasses, i \in InstIds, body \in InitBodies : NewInstance(c, i, body)
    \/ Mutate(FrozenClasses \cup InstIds)

SpecStrict == Init /\ [][NextStrict]_vars

\* Class statements of both variants, well-formed or not, and construction
NextClass ==
    \/ \E c \in {"A", "B"}, fd \in FlagDecls, td \in ThawedDecls : ClassThawable(c, fd, td)
    \/ \E c \in {"F", "G"}, fd \in FlagDecls : ClassFrozen(c, fd)
    \/ \E c \in Classes, i \in InstIds, body \in InitBodies : NewInstance(c, i, body)

SpecClass == Init /\ [][NextClass]_vars

(* ---------------------------------------------------------------------- *)
(* Vocabulary of the properties                                            *)
(* ---------------------------------------------------------------------- *)
state == <<defined, clsDict, heap, instCls, instDict>>

\* The class c and its instances (of exactly that class)
TargetsOf(c) == {c} \cup {i \in InstIds : instCls[i] = c}

\* The whitelist of a defined thawable class
Whitelist(c) == heap[clsDict[c][THAWED_ATTRS]]

SetBy(ref, co) ==
    \E slot \in SetSlots, kv \in Writes : SetAttr(slot, ref, co, kv[1], kv[2])
DelBy(ref, co) ==
    \E slot \in DelSlots, k \in MutKeys : DelAttr(slot, ref, co, k)

\* The step ended with FrozenObjectError(ref) and changed no object
Rejected(ref) ==
    /\ last'.err = "FrozenObjectError"
    /\ last'.obj = ref
    /\ UNCHANGED state

\* The step stored the value, or removed the attribute that was there
SetDone(ref, co) ==
    \A slot \in SetSlots, kv \in Writes :
        SetAttr(slot, ref, co, kv[1], kv[2]) =>
            last'.err = "ok" /\ OwnAttr(World', ref, kv[1]) = kv[2]
DelDone(ref, co) ==
    \A slot \in DelSlots, k \in MutKeys :
        DelAttr(slot, ref, co, k) /\ OwnAttr(World, ref, k) # Absent =>
            last'.err = "ok" /\ OwnAttr(World', ref, k) = Absent

(* ---------------------------------------------------------------------- *)
(* Properties                                                              *)
(* ---------------------------------------------------------------------- *)
\* C1: while a Thawable class is frozen (as one declared without __frozen__
\* is), every set and delete on the class or on an instance of it from a
\* caller that is not in the class's whitelist ends with FrozenObjectError
\* naming the target, and changes nothing.
C1_FrozenRejectsNonWhitelisted ==
    [][ ("A" \in defined /\ clsDict["A"][FROZEN_FLAG] = "True") =>
          \A ref \in TargetsOf("A"), co \in Callers \ Whitelist("A") :
              (SetBy(ref, co) \/ DelBy(ref, co)) => Rejected(ref) ]_vars

\* C2: while the class is thawed (after thaw() and before the next freeze),
\* is_frozen() is false and every set and delete on the class and on every
\* instance of it takes effect, whoever the caller is.
C2_ThawedFullyMutable ==
    [][ /\ Thaw("A") /\ last'.err = "ok" => is_frozen(World', "A") = "False"
        /\ ("A" \in defined /\ clsDict["A"][FROZEN_FLAG] = "False") =>
              \A ref \in TargetsOf("A"), co \in Callers :
                  SetDone(ref, co) /\ DelDone(ref, co) ]_vars

\* C3: on a frozen class whose whitelist holds the thawed name foo, a set by
\* a function named foo takes effect, a set or delete by a caller that is in
\* the whitelist neither by default nor by thawing is rejected with
\* FrozenObjectError, and a successful thaw(names) leaves is_frozen() true.
C3_ThawNameOnlyThatPath ==
    [][ ("A" \in defined /\ clsDict["A"][FROZEN_FLAG] = "True") =>
          /\ \A attrs \in (SUBSET ThawNames) \ {{}}, e \in BOOLEAN :
                ThawAttrs("A", attrs, e) /\ last'.err = "ok" =>
                    is_frozen(World', "A") = "True" /\ attrs \subseteq Whitelist("A")'
          /\ "foo" \in Whitelist("A") =>
                \A ref \in TargetsOf("A") :
                    /\ SetDone(ref, "foo")
                    /\ \A co \in Callers \ Whitelist("A") :
                          (SetBy(ref, co) \/ DelBy(ref, co)) => Rejected(ref) ]_vars

\* C4: in the state a successful freeze() leaves, the class and every
\* instance of it reject a set and a delete from every caller that is not
\* in the whitelist with FrozenObjectError.
C4_FreezeRelocksAll ==
    (last.op = "freeze" /\ last.err = "ok") =>
        \A ref \in TargetsOf(last.ref), co \in Callers \ Whitelist(last.ref), kv \in Writes :
            /\ __frozen_setattr__(World, ref, co, kv[1], kv[2]).err = "FrozenObjectError"
            /\ __frozen_delattr__(World, ref, co, kv[1]).err = "FrozenObjectError"

\* C5: freeze(strict=True) on a frozen class ends with FrozenError and changes
\* neither the flag nor the whitelist; freeze(strict=False) on a frozen class
\* raises nothing and leaves it frozen; freeze on an unfrozen class sets the
\* flag to True whatever strict is.
C5_FreezeStrictness ==
    [][ \A strict \in BOOLEAN :
          (last'.op = "freeze" /\ Freeze("A", strict)) =>
            /\ (is_frozen(World, "A") = "True" /\ strict) =>
                  last'.err = "FrozenError" /\ UNCHANGED state
            /\ (is_frozen(World, "A") = "True" /\ ~strict) =>
                  /\ last'.err = "ok"
                  /\ is_frozen(World', "A") = "True"
                  /\ UNCHANGED heap
            /\ is_frozen(World, "A") = "False" =>
                  /\ last'.err = "ok"
                  /\ clsDict'["A"][FROZEN_FLAG] = "True"
                  /\ UNCHANGED heap ]_vars

\* A strict freeze of the frozen class has just failed
C5_Witness ==
    /\ last.op = "freeze" /\ last.ref = "A" /\ last.err = "FrozenError"
    /\ clsDict["A"][FROZEN_FLAG] = "True"

\* C6: freeze, thaw() and thaw(names) on one Thawable class change neither
\* the flag nor the whitelist of another class, and a class statement sets
\* the flag and the whitelist of the new class from its own declaration or
\* the built-in defaults, whatever the state of its base is.
C6_ClassesIndependent ==
    [][ \A c \in {"A", "B"} :
          /\ FreezeThaw({c}) =>
                \A d \in (defined \cap ThawableClasses) \ {c} :
                    /\ clsDict'[d][FROZEN_FLAG] = clsDict[d][FROZEN_FLAG]
                    /\ Whitelist(d)' = Whitelist(d)
          /\ \A fd \in FlagDecls, td \in ThawedDecls :
                ClassThawable(c, fd, td) /\ last'.err = "ok" =>
                    /\ clsDict'[c][FROZEN_FLAG] = (IF fd = NoDecl THEN "True" ELSE fd)
                    /\ Whitelist(c)' = THAWED_DEFAULTS \cup
                          (IF td = NoDecl THEN {}
                           ELSE IF td = "literal" THEN DeclaredNames ELSE heap[td]) ]_vars

\* C7: every set and delete on a class of the strict variant or on one of
\* its instances, made outside __init__, ends with FrozenObjectError naming
\* the target and changes nothing.
C7_StrictRejectsAll ==
    [][ \A ref \in (defined \cap FrozenClasses) \cup Live, co \in Callers \ {"__init__"} :
          (SetBy(ref, co) \/ DelBy(ref, co)) => Rejected(ref) ]_vars

\* The dictionary the assignments of an __init__ body leave
RECURSIVE BodyDict(_)
BodyDict(body) ==
    IF body = <<>> THEN EmptyDict
    ELSE [BodyDict(SubSeq(body, 1, Len(body) - 1)) EXCEPT
            ![body[Len(body)][1]] = body[Len(body)][2]]

\* C8: constructing an instance of a frozen class succeeds, and the new
\* instance holds exactly the values its __init__ assigned.
C8_InitAssignsWhileFrozen ==
    [][ \A c \in defined, i \in InstIds, body \in InitBodies :
          NewInstance(c, i, body) =>
            /\ last'.err = "ok"
            /\ instCls'[i] = c
            /\ instDict'[i] = BodyDict(body) ]_vars

\* C9: thaw(names, ensure_attrs=True) with a name that is not in dir(cls)
\* ends with AttributeError, adds no name and leaves the flag as it was;
\* thaw(names, ensure_attrs=False) adds every name.
C9_ThawEnsureAttrs ==
    [][ \A attrs \in (SUBSET ThawNames) \ {{}}, e \in BOOLEAN :
          (last'.op = "thaw_attrs" /\ ThawAttrs("A", attrs, e)) =>
            /\ (e /\ ~(attrs \subseteq Dir(World, "A"))) =>
                  last'.err = "AttributeError" /\ UNCHANGED state
            /\ ~e => last'.err = "ok" /\ attrs \subseteq Whitelist("A")' ]_vars

\* A thaw of names has just failed on a class that declares foo, and foo
\* has not been added
C9_Witness ==
    /\ last.op = "thaw_attrs" /\ last.ref = "A" /\ last.err = "AttributeError"
    /\ "foo" \in Dir(World, "A")
    /\ Whitelist("A") = THAWED_DEFAULTS

\* C10: a class statement with a __frozen__ that is no bool (both variants),
\* with __frozen__ = False (strict variant) or with a __thawed_attrs__ that
\* is no set (thawable variant) ends with ValueError, defines no class and
\* changes nothing; every instance is an instance of a defined class.
C10_MisconfiguredClassFails ==
    [][ /\ \A c \in {"A", "B"}, fd \in FlagDecls, td \in ThawedDecls :
              (ClassThawable(c, fd, td) /\ (fd = "object" \/ td = "list")) =>
                  last'.err = "ValueError" /\ UNCHANGED state
        /\ \A c \in {"F", "G"}, fd \in FlagDecls :
              (ClassFrozen(c, fd) /\ fd \in {"object", "False"}) =>
                  last'.err = "ValueError" /\ UNCHANGED state
        /\ \A i \in InstIds : instCls'[i] # NoClass => instCls'[i] \in defined' ]_vars

\* A class statement of the strict variant has just failed, and the class
\* does not exist
C10_Witness ==
    /\ last.op = "class" /\ last.ref = "F" /\ last.err = "ValueError"
    /\ "F" \notin defined
    /\ clsDict["F"] = EmptyDict

(* ====================================================================== *)
(* sentinel.py: the sentinel factory                                       *)
(*                                                                         *)
(* A str is a sequence of characters, so that the key built from the      *)
(* parts of an identity is the string the f-string builds.  A Sentinel    *)
(* object is an index into sobjs; two objects are identical when their     *)
(* indices are equal.                                                      *)
(* ====================================================================== *)
MaxSentinels == 2

SentinelNames == {<<"a">>, <<"-", "a">>}
SentinelModules == {<<"a">>, <<"a", "-">>}
SentinelReprs == {<<"r">>}
\* the module whose code calls Sentinel(...) without a module argument
CallerModule == <<"a">>

\* Sentinel itself and a subclass of it defined by the user
SentinelClasses == {"Sentinel", "Sub"}
cls__module__(cls) == IF cls = "Sentinel" THEN <<"jera.sentinel">> ELSE <<"a">>
cls__qualname__(cls) == IF cls = "Sentinel" THEN <<"Sentinel">> ELSE <<"Sub">>

\* module = sys._getframe(1).f_globals.get("__name__", "__main__") when None
ResolveModule_own_module(module, caller) ==
    IF module = NoneStr THEN <<"jera.sentinel">> ELSE module

ResolveModule(module, caller) ==
    IF module = NoneStr THEN caller ELSE module

\* name.split('.')[-1]
RECURSIVE LastSegment(_)
LastSegment(name) ==
    IF \E n \in 1..Len(name) : name[n] = "."
    THEN LET n == CHOOSE m \in 1..Len(name) : name[m] = "."
         IN  LastSegment(SubSeq(name, n + 1, Len(name)))
    ELSE name

\* repr = f"<{name.split('.')[-1]}>" when None
ResolveRepr(repr, name) ==
    IF repr = NoneStr THEN <<"<">> \o LastSegment(name) \o <<">">> ELSE repr

\* f"{cls.__module__}-{cls.__qualname__}-{module}-{name}"
SentinelKey(cls, module, name) ==
    cls__module__(cls) \o <<"-">> \o cls__qualname__(cls) \o <<"-">>
        \o module \o <<"-">> \o name

\* super().__new__(cls) and the three slot assignments
SentinelAlloc(objs, cls, name, module, repr) ==
    Append(objs, [cls |-> cls, _name |-> name, _repr |-> repr, _module |-> module])

\* _sinstances.setdefault(key, sentinel): the registry after it and its result
setdefault_overwrites(reg, key, sentinel) ==
    [reg |-> [k \in DOMAIN reg \cup {key} |-> IF k = key THEN sentinel ELSE reg[k]],
     ret |-> sentinel]

setdefault(reg, key, sentinel) ==
    IF key \in DOMAIN reg
    THEN [reg |-> reg, ret |-> reg[key]]
    ELSE [reg |-> [k \in DOMAIN reg \cup {key} |-> IF k = key THEN sentinel ELSE reg[k]],
          ret |-> sentinel]

\* Sentinel.__new__ run by one thread with no other thread inside it
Sentinel__new__(reg, objs, cls, name, module, repr, caller) ==
    LET m == ResolveModule(module, caller)
        r == ResolveRepr(repr, name)
        key == SentinelKey(cls, m, name)
    IN  IF key \in DOMAIN reg
        THEN [reg |-> reg, objs |-> objs, ret |-> reg[key]]
        ELSE LET objs2 == SentinelAlloc(objs, cls, name, m, r)
                 sd == setdefault(reg, key, Len(objs2))
             IN  [reg |-> sd.reg, objs |-> objs2, ret |-> sd.ret]

\* Sentinel.__reduce__: the class and the arguments pickle calls it with
Sentinel__reduce__name_only(objs, o) ==
    [cls |-> objs[o].cls, name |-> objs[o]._name, module |-> NoneStr, repr |-> NoneStr]

Sentinel__reduce__(objs, o) ==
    [cls |-> objs[o].cls, name |-> objs[o]._name, module |-> objs[o]._module,
     repr |-> objs[o]._repr]

\* Sentinel.__copy__ and Sentinel.__deepcopy__ return self
Sentinel__copy__(o) == o
Sentinel__deepcopy__(o) == o

\* pickle.loads(pickle.dumps(o)): the class is pickled by reference and called
\* with the arguments of __reduce__
SentinelPickleRoundTrip(reg, objs, o) ==
    LET red == Sentinel__reduce__(objs, o)
    IN  Sentinel__new__(reg, objs, red.cls, red.name, red.module, red.repr, CallerModule)

(* ---------------------------------------------------------------------- *)
(* undefined.py: the undefined marker.  UNDEFINED is instance 1 of          *)
(* UndefinedType.                                                          *)
(* ---------------------------------------------------------------------- *)
UNDEFINED == 1

\* the names bound in the namespace of jera.undefined after import, with the
\* instance of UndefinedType each is bound to (0: another object)
UndefinedGlobals ==
    [n \in {"UNDEFINED", "UndefinedType", "UndefinedOr"} |->
        IF n = "UNDEFINED" THEN UNDEFINED ELSE 0]

\* UndefinedType.__new__ after line 69: raises TypeError
UndefinedType__new__allocates(n) == [n |-> n + 1, ret |-> n + 1, err |-> "ok"]

UndefinedType__new__(n) == [n |-> n, ret |-> 0, err |-> "TypeError"]

UndefinedType__bool__(o) == "False"
UndefinedType__copy__(o) == o
UndefinedType__deepcopy__(o) == o
UndefinedType__reduce__(o) == "NOTHING"

\* pickle.dumps: a str from __reduce__ names a global of the object's module,
\* which must be bound to the object itself; pickle.loads returns that global
UndefinedPickleRoundTrip(o) ==
    LET name == UndefinedType__reduce__(o)
    IN  IF name \in DOMAIN UndefinedGlobals /\ UndefinedGlobals[name] = o
        THEN [ret |-> UndefinedGlobals[name], err |-> "ok"]
        ELSE [ret |-> 0, err |-> "PicklingError"]

(* ---------------------------------------------------------------------- *)
(* Actions on sentinels and on UNDEFINED, one thread                       *)
(* ---------------------------------------------------------------------- *)
SDone(op, args, arg, ret, err, val) ==
    /\ sres' = [op |-> op, args |-> args, arg |-> arg, ret |-> ret, err |-> err,
                val |-> val]
    /\ UNCHANGED <<frozenVars, typedVars, aboutVars, _lock, thr>>

\* cls(name, module, repr) called from CallerModule
SentinelNew(cls, name, module, repr) ==
    LET r == Sentinel__new__(_sinstances, sobjs, cls, name, module, repr, CallerModule)
    IN  /\ Len(r.objs) <= MaxSentinels
        /\ _sinstances' = r.reg
        /\ sobjs' = r.objs
        /\ SDone("new", [cls |-> cls, name |-> name, module |-> module], 0, r.ret, "ok", None)
        /\ UNCHANGED uinstances

SentinelCopy(o) ==
    /\ o \in 1..Len(sobjs)
    /\ SDone("copy", NoArgs, o, Sentinel__copy__(o), "ok", None)
    /\ UNCHANGED <<_sinstances, sobjs, uinstances>>

SentinelDeepCopy(o) ==
    /\ o \in 1..Len(sobjs)
    /\ SDone("deepcopy", NoArgs, o, Sentinel__deepcopy__(o), "ok", None)
    /\ UNCHANGED <<_sinstances, sobjs, uinstances>>

SentinelPickle(o) ==
    /\ o \in 1..Len(sobjs)
    /\ LET r == SentinelPickleRoundTrip(_sinstances, sobjs, o)
       IN  /\ _sinstances' = r.reg
           /\ sobjs' = r.objs
           /\ SDone("pickle", NoArgs, o, r.ret, "ok", None)
    /\ UNCHANGED uinstances

\* UndefinedType()
UndefinedCall ==
    LET r == UndefinedType__new__(uinstances)
    IN  /\ uinstances' = r.n
        /\ SDone("u_call", NoArgs, 0, r.ret, r.err, None)
        /\ UNCHANGED <<_sinstances, sobjs>>

UndefinedBool ==
    /\ SDone("u_bool", NoArgs, UNDEFINED, 0, "ok", UndefinedType__bool__(UNDEFINED))
    /\ UNCHANGED <<_sinstances, sobjs, uinstances>>

UndefinedCopy ==
    /\ SDone("u_copy", NoArgs, UNDEFINED, UndefinedType__copy__(UNDEFINED), "ok", None)
    /\ UNCHANGED <<_sinstances, sobjs, uinstances>>

UndefinedDeepCopy ==
    /\ SDone("u_deepcopy", NoArgs, UNDEFINED, UndefinedType__deepcopy__(UNDEFINED), "ok", None)
    /\ UNCHANGED <<_sinstances, sobjs, uinstances>>

UndefinedPickle ==
    LET r == UndefinedPickleRoundTrip(UNDEFINED)
    IN  /\ SDone("u_pickle", NoArgs, UNDEFINED, r.ret, r.err, None)
        /\ UNCHANGED <<_sinstances, sobjs, uinstances>>

NextUndefined ==
    \/ UndefinedCall
    \/ UndefinedBool
    \/ UndefinedCopy
    \/ UndefinedDeepCopy
    \/ UndefinedPickle

\* One thread making sentinels, copying and pickling them, and using UNDEFINED
NextSentinel ==
    \/ \E cls \in SentinelClasses, name \in SentinelNames,
          module \in SentinelModules \cup {NoneStr},
          repr \in SentinelReprs \cup {NoneStr} : SentinelNew(cls, name, module, repr)
    \/ \E o \in 1..MaxSentinels : SentinelCopy(o)
    \/ \E o \in 1..MaxSentinels : SentinelDeepCopy(o)
    \/ \E o \in 1..MaxSentinels : SentinelPickle(o)
    \/ NextUndefined

SpecSentinel == Init /\ [][NextSentinel]_vars

(* ---------------------------------------------------------------------- *)
(* Properties of the sentinel factory and of the undefined marker          *)
(* ---------------------------------------------------------------------- *)
\* the module of the identity (defining class, module, name) of a construction
IdentityModule(module) == IF module = NoneStr THEN CallerModule ELSE module

SentinelSpellings ==
    [module : SentinelModules \cup {NoneStr}, repr : SentinelReprs \cup {NoneStr}]

\* the object a construction with the class and name of a and the module and
\* repr of b would return in the next state
WouldReturnNext(a, b) ==
    Sentinel__new__(_sinstances', sobjs', a.cls, a.name, b.module, b.repr, CallerModule).ret

\* the object a construction with the arguments a would return in this state
WouldReturn(a, b) ==
    Sentinel__new__(_sinstances, sobjs, a.cls, a.name, b.module, b.repr, CallerModule).ret

\* o was made by a construction with the identity of a
MadeFor(o, a) ==
    /\ sobjs[o].cls = a.cls
    /\ sobjs[o]._name = a.name
    /\ sobjs[o]._module = IdentityModule(a.module)

\* C11: constructions with the same (defining class, module, name) return the
\* identical object whatever repr each passes: a construction returns the
\* object made for its identity when there is one, the next construction with
\* its identity returns the same object again, an object that a construction
\* would return stays the one it returns when the registry changes, and a
\* registry entry is never replaced or removed.
C11_SameKeySameObject ==
    [][ /\ sres'.op = "new" =>
             /\ \A b \in SentinelSpellings :
                   IdentityModule(b.module) = IdentityModule(sres'.args.module)
                       => WouldReturnNext(sres'.args, b) = sres'.ret
             /\ \A o \in 1..Len(sobjs) : MadeFor(o, sres'.args) => sres'.ret = o
        /\ <<_sinstances, sobjs>>' # <<_sinstances, sobjs>> =>
             \A cls \in SentinelClasses, name \in SentinelNames, b \in SentinelSpellings :
                LET a == [cls |-> cls, name |-> name]
                IN  WouldReturn(a, b) \in 1..Len(sobjs)
                        => WouldReturnNext(a, b) = WouldReturn(a, b)
        /\ \A k \in DOMAIN _sinstances :
             k \in DOMAIN _sinstances' /\ _sinstances'[k] = _sinstances[k] ]_vars

\* a construction has returned the first object after a second was registered
C11_Witness ==
    /\ sres.op = "new"
    /\ sres.ret = 1
    /\ Len(sobjs) = 2
    /\ Cardinality(DOMAIN _sinstances) = 2

\* C12: constructions that differ in name, module or defining class yield
\* distinct objects: a construction never returns an object made for another
\* identity.
C12_DistinctKeysDistinctObjects ==
    [][ sres'.op = "new" =>
            \A o \in 1..Len(sobjs) : ~MadeFor(o, sres'.args) => sres'.ret # o ]_vars

\* C14: copy, deepcopy and pickle round trip of a sentinel return the
\* identical object and leave the registry and the set of objects as they were.
C14_CopyPickleIdentity ==
    [][ sres'.op \in {"copy", "deepcopy", "pickle"} =>
            /\ sres'.ret = sres'.arg
            /\ _sinstances' = _sinstances
            /\ sobjs' = sobjs ]_vars

\* a sentinel of the subclass with a custom repr has gone through pickle while
\* another sentinel is registered
C14_Witness ==
    /\ sres.op = "pickle"
    /\ sres.ret = sres.arg
    /\ Len(sobjs) = 2
    /\ sobjs[sres.arg].cls = "Sub"
    /\ sobjs[sres.arg]._repr \in SentinelReprs

\* C15: exactly one instance of UndefinedType exists, and calling the type
\* fails with TypeError and makes no object.
C15_SingleUndefined ==
    /\ uinstances = 1
    /\ sres.op = "u_call" => sres.err = "TypeError" /\ sres.ret = 0

C15_Witness ==
    /\ sres.op = "u_call"
    /\ sres.err = "TypeError"
    /\ uinstances = 1

\* C16: UNDEFINED is falsy, and copy, deepcopy and pickle round trip of it
\* each return the identical object.
C16_UndefinedFalsyAndStable ==
    /\ sres.op = "u_bool" => sres.val = "False"
    /\ sres.op \in {"u_copy", "u_deepcopy", "u_pickle"} =>
            sres.err = "ok" /\ sres.ret = UNDEFINED

(* ---------------------------------------------------------------------- *)
(* Sentinel.__new__ run by several threads.  A thread is preempted between *)
(* the look-up, the allocation, the acquisition of _lock, the setdefault   *)
(* and the release of _lock; each of these is atomic (a dict operation or  *)
(* a lock operation of the interpreter).                                   *)
(* ---------------------------------------------------------------------- *)
ThreadNames == SentinelNames
ThreadReprs == SentinelReprs \cup {NoneStr}

TDone(t, rec) ==
    /\ thr' = [thr EXCEPT ![t] = rec]
    /\ UNCHANGED <<frozenVars, typedVars, aboutVars, uinstances, sres>>

\* the threads that may still allocate an object in their construction
Allocating == {u \in Threads : thr[u].pc \in {"lookup", "alloc"}}

\* lines 54-68: thread t enters Sentinel(name, repr=repr) and builds the key.
\* A construction that may have to allocate begins only while there is room
\* for its object among the MaxSentinels objects.
ThreadBegin(t, name, repr) ==
    /\ thr[t].pc \in {"idle", "done"}
    /\ \/ SentinelKey("Sentinel", ResolveModule(NoneStr, CallerModule), name)
              \in DOMAIN _sinstances
       \/ Len(sobjs) + Cardinality(Allocating) < MaxSentinels
    /\ LET m == ResolveModule(NoneStr, CallerModule)
       IN  TDone(t, [pc |-> "lookup", cls |-> "Sentinel", name |-> name, module |-> m,
                     repr |-> ResolveRepr(repr, name), caller |-> CallerModule,
                     key |-> SentinelKey("Sentinel", m, name), sentinel |-> 0, ret |-> 0])
    /\ UNCHANGED <<_sinstances, sobjs, _lock>>

\* lines 69-71 as they would be inside `with _lock`
ThreadLookup_under_lock(t) ==
    /\ thr[t].pc = "lookup"
    /\ _lock = NoThread
    /\ IF thr[t].key \in DOMAIN _sinstances
       THEN TDone(t, [thr[t] EXCEPT !.pc = "done", !.ret = _sinstances[thr[t].key]])
       ELSE TDone(t, [thr[t] EXCEPT !.pc = "alloc"])
    /\ UNCHANGED <<_sinstances, sobjs, _lock>>

\* lines 69-71: return _sinstances[key], or KeyError
ThreadLookup(t) ==
    /\ thr[t].pc = "lookup"
    /\ IF thr[t].key \in DOMAIN _sinstances
       THEN TDone(t, [thr[t] EXCEPT !.pc = "done", !.ret = _sinstances[thr[t].key]])
       ELSE TDone(t, [thr[t] EXCEPT !.pc = "alloc"])
    /\ UNCHANGED <<_sinstances, sobjs, _lock>>

\* lines 72-75
ThreadAlloc(t) ==
    /\ thr[t].pc = "alloc"
    /\ sobjs' = SentinelAlloc(sobjs, thr[t].cls, thr[t].name, thr[t].module, thr[t].repr)
    /\ TDone(t, [thr[t] EXCEPT !.pc = "acquire", !.sentinel = Len(sobjs) + 1])
    /\ UNCHANGED <<_sinstances, _lock>>

\* line 77: with _lock
ThreadAcquire(t) ==
    /\ thr[t].pc = "acquire"
    /\ _lock = NoThread
    /\ _lock' = t
    /\ TDone(t, [thr[t] EXCEPT !.pc = "locked"])
    /\ UNCHANGED <<_sinstances, sobjs>>

\* line 78: _sinstances.setdefault(key, sentinel)
ThreadSetDefault(t) ==
    /\ thr[t].pc = "locked"
    /\ LET sd == setdefault(_sinstances, thr[t].key, thr[t].sentinel)
       IN  /\ _sinstances' = sd.reg
           /\ TDone(t, [thr[t] EXCEPT !.pc = "release", !.ret = sd.ret])
    /\ UNCHANGED <<sobjs, _lock>>

\* line 78 with the lock kept when the with block is left
ThreadRelease_keeps_lock(t) ==
    /\ thr[t].pc = "release"
    /\ _lock = t
    /\ _lock' = _lock
    /\ TDone(t, [thr[t] EXCEPT !.pc = "done"])
    /\ UNCHANGED <<_sinstances, sobjs>>

\* line 78: the with block is left and the value returned
ThreadRelease(t) ==
    /\ thr[t].pc = "release"
    /\ _lock = t
    /\ _lock' = NoThread
    /\ TDone(t, [thr[t] EXCEPT !.pc = "done"])
    /\ UNCHANGED <<_sinstances, sobjs>>

NextThreads ==
    \/ \E t \in Threads, name \in ThreadNames, repr \in ThreadReprs : ThreadBegin(t, name, repr)
    \/ \E t \in Threads : ThreadLookup(t)
    \/ \E t \in Threads : ThreadAlloc(t)
    \/ \E t \in Threads : ThreadAcquire(t)
    \/ \E t \in Threads : ThreadSetDefault(t)
    \/ \E t \in Threads : ThreadRelease(t)

SpecThreads == Init /\ [][NextThreads]_vars

\* the steps of a construction that wait for nothing
ThreadStep(t) ==
    \/ ThreadLookup(t)
    \/ ThreadAlloc(t)
    \/ ThreadSetDefault(t)
    \/ ThreadRelease(t)

\* The interpreter keeps running every thread that can run, and a thread
\* blocked in _lock.acquire() gets the lock if it is free again and again.
\* Nothing obliges a thread to begin a construction.
SpecThreadsFair ==
    /\ SpecThreads
    /\ \A t \in Threads : WF_vars(ThreadStep(t)) /\ SF_vars(ThreadAcquire(t))

\* the threads that have returned from a construction with the identity of t
ReturnedLike(t) ==
    {u \in Threads : /\ thr[u].pc = "done"
                     /\ thr[u].cls = thr[t].cls
                     /\ thr[u].name = thr[t].name
                     /\ thr[u].module = thr[t].module}

\* C13: in every interleaving, the threads that construct a sentinel for the
\* same key return the same object, which is the one entry of the registry
\* for that key.
C13_ConcurrentFirstCreation ==
    \A t \in Threads :
        thr[t].pc = "done" =>
            /\ thr[t].key \in DOMAIN _sinstances
            /\ _sinstances[thr[t].key] = thr[t].ret
            /\ \A u \in ReturnedLike(t) : thr[u].ret = thr[t].ret

\* two threads have both allocated an object for the same unseen key and both
\* have returned
C13_Witness ==
    /\ \A t \in Threads : thr[t].pc = "done" /\ thr[t].sentinel # 0
    /\ thr["t1"].key = thr["t2"].key
    /\ thr["t1"].sentinel # thr["t2"].sentinel
    /\ thr["t1"].ret = thr["t2"].ret

(* ====================================================================== *)
(* typed.py and typedattrs.py: the typed-attribute equality engines        *)
(*                                                                         *)
(* One user class of one engine, with the constructor parameters a and b  *)
(* in this order, each annotated with an Attribute.  The table             *)
(* __typed_class_attrs__ is a sequence in the order of the parameters, as  *)
(* the dict the code builds is.                                            *)
(* ====================================================================== *)
Engines == {"Typed", "TypedAttrs"}
Directives == {None, "True", "False"}
\* how a parameter carries its Attribute: as typing.Annotated[T, Attribute(...)],
\* or as an annotation object that has the attribute __metadata__ itself
AnnotationKinds == {"Annotated", "metadata"}
TypedValues == {"1", "2"}

\* Attribute.is_comparable: the hash directive when set, else the compare directive
is_comparable(attr) == IF attr.hash = None THEN attr.compare ELSE attr.hash

\* typing.get_type_hints(cls.__init__), called without include_extras: an
\* Annotated[T, ...] is replaced by T, any other annotation is returned as it is.
\* The result says for each parameter whether the hint has __metadata__.
get_type_hints(decl) ==
    [f \in {"a", "b"} |-> IF decl.kind = "Annotated" THEN FALSE ELSE TRUE]

\* the loop of Typed.__new__ / TypedAttrs.__new__ over the hints
RECURSIVE CollectAttrs(_, _, _)
CollectAttrs(decl, hints, n) ==
    IF n > Len(TypedFields) THEN <<>>
    ELSE LET k == TypedFields[n]
         IN  IF hints[k]
             THEN <<[name |-> k, compare |-> decl[k].compare, hash |-> decl[k].hash]>>
                      \o CollectAttrs(decl, hints, n + 1)
             ELSE CollectAttrs(decl, hints, n + 1)

\* setattr(cls, TYPED_CLASS_ATTRS, attrs)
Typed__new__(decl) == [set |-> TRUE, attrs |-> CollectAttrs(decl, get_type_hints(decl), 1)]

\* Attributes.comparable_attrs
RECURSIVE comparable_attrs(_)
comparable_attrs(attrs) ==
    IF attrs = <<>> THEN <<>>
    ELSE IF Truthy(is_comparable(Head(attrs)))
         THEN <<Head(attrs)>> \o comparable_attrs(Tail(attrs))
         ELSE comparable_attrs(Tail(attrs))

\* object.__eq__
object__eq__(self, other) == IF self = other THEN "True" ELSE "NotImplemented"

\* the loop of Typed.__eq__ from entry n of the table on, count being the
\* local of that name
RECURSIVE TypedEqLoop(_, _, _, _, _)
TypedEqLoop(attrs, n, count, selfd, otherd) ==
    IF n > Len(attrs) THEN "True"
    ELSE LET k == attrs[n].name
         IN  IF ~Truthy(is_comparable(attrs[n]))
             THEN IF count - 1 = 0 THEN "False"
                  ELSE TypedEqLoop(attrs, n + 1, count - 1, selfd, otherd)
             ELSE IF otherd[k] = Absent THEN "MissingTypedAttribute"
             ELSE IF selfd[k] = Absent THEN "AttributeError"
             ELSE IF otherd[k] # selfd[k] THEN "False"
             ELSE TypedEqLoop(attrs, n + 1, count, selfd, otherd)

\* Typed.__eq__(self, other), other being an instance of the same class
Typed__eq__(table, inst, self, other) ==
    IF ~table.set THEN object__eq__(self, other)
    ELSE TypedEqLoop(table.attrs, 1, Len(table.attrs), inst[self], inst[other])

\* the loop of TypedAttrs.__eq__ over comparable_attrs
RECURSIVE TypedAttrsEqLoop(_, _, _)
TypedAttrsEqLoop(cattrs, selfd, otherd) ==
    IF cattrs = <<>> THEN "True"
    ELSE LET k == Head(cattrs).name
         IN  IF otherd[k] = Absent THEN "MissingTypedAttribute"
             ELSE IF selfd[k] = Absent THEN "AttributeError"
             ELSE IF otherd[k] # selfd[k] THEN "False"
             ELSE TypedAttrsEqLoop(Tail(cattrs), selfd, otherd)

\* TypedAttrs.__eq__(self, other), other being an instance of the same class
TypedAttrs__eq__(table, inst, self, other) ==
    IF ~table.set \/ comparable_attrs(table.attrs) = <<>>
    THEN object__eq__(self, other)
    ELSE TypedAttrsEqLoop(comparable_attrs(table.attrs), inst[self], inst[other])

Engine__eq__(engine, table, inst, self, other) ==
    IF engine = "Typed" THEN Typed__eq__(table, inst, self, other)
    ELSE TypedAttrs__eq__(table, inst, self, other)

\* self == other: __eq__, then the reflected __eq__ when it returns
\* NotImplemented, then the comparison of identities
EqOperator(engine, table, inst, self, other) ==
    LET r == Engine__eq__(engine, table, inst, self, other)
    IN  IF r # "NotImplemented" THEN r
        ELSE LET q == Engine__eq__(engine, table, inst, other, self)
             IN  IF q # "NotImplemented" THEN q
                 ELSE IF self = other THEN "True" ELSE "False"

\* hash(tuple(getattr(self, k) for k in attrs)): the tuple stands for its hash
RECURSIVE HashTuple(_, _)
HashTuple(cattrs, selfd) ==
    IF cattrs = <<>> THEN <<"tuple">>
    ELSE IF selfd[Head(cattrs).name] = Absent THEN <<"AttributeError">>
    ELSE LET rest == HashTuple(Tail(cattrs), selfd)
         IN  IF rest = <<"AttributeError">> THEN rest
             ELSE <<"tuple", selfd[Head(cattrs).name]>> \o Tail(rest)

\* object.__hash__: the hash of the identity
object__hash__(self) == <<"id", self>>

\* hash(self) through Typed.__hash__; a __hash__ that returns NotImplemented
\* makes hash() raise TypeError
Typed__hash__(table, inst, self) ==
    IF ~table.set \/ table.attrs = <<>> THEN object__hash__(self)
    ELSE IF comparable_attrs(table.attrs) = <<>> THEN <<"TypeError">>
    ELSE HashTuple(comparable_attrs(table.attrs), inst[self])

\* hash(self) through TypedAttrs.__hash__
TypedAttrs__hash__(table, inst, self) ==
    IF ~table.set \/ comparable_attrs(table.attrs) = <<>> THEN object__hash__(self)
    ELSE HashTuple(comparable_attrs(table.attrs), inst[self])

HashOperator(engine, table, inst, self) ==
    IF engine = "Typed" THEN Typed__hash__(table, inst, self)
    ELSE TypedAttrs__hash__(table, inst, self)

(* ---------------------------------------------------------------------- *)
(* typedattrs.py: injection of defaults.  A parameter declares a default,  *)
(* a default_factory or neither; the n-th call of a default_factory        *)
(* returns a new object, FactoryResult(n).                                 *)
(* ---------------------------------------------------------------------- *)
MaxConstructions == 3

DefaultKinds == {MissingValue, "default", "default_factory"}
DeclaredDefault == "d"
FactoryResult(n) == "f" \o ToString(n)

\* Attribute.get_default: the value and the number of factory calls after it
get_default(kind, calls) ==
    IF kind = "default_factory" THEN [v |-> FactoryResult(calls + 1), calls |-> calls + 1]
    ELSE IF kind = "default" THEN [v |-> DeclaredDefault, calls |-> calls]
    ELSE [v |-> MissingValue, calls |-> calls]

\* util.attributes(self): the fields of the instance with their values, in
\* the order __init__ assigned them
attributes(d) == [n \in 1..Len(TypedFields) |-> <<TypedFields[n], d[TypedFields[n]]>>]

\* Attributes.all_attrs has an entry for k
HasAttr(table, k) == \E n \in 1..Len(table.attrs) : table.attrs[n].name = k

\* TypedAttrs.__new__, lines 174-185: some collected Attribute has a default
\* or a default_factory
any_has_default(table, defaults) ==
    \E n \in 1..Len(table.attrs) : defaults[table.attrs[n].name] # MissingValue

\* the loop of the wrapper of replace_defaults_hook over items, from item n on
RECURSIVE ReplaceDefaults(_, _, _, _, _, _)
ReplaceDefaults(table, defaults, items, n, d, calls) ==
    IF n > Len(items) THEN [d |-> d, calls |-> calls, err |-> "ok"]
    ELSE LET k == items[n][1]
             v == items[n][2]
         IN  IF v # DefaultValue
             THEN ReplaceDefaults(table, defaults, items, n + 1, d, calls)
             ELSE IF ~HasAttr(table, k) THEN [d |-> d, calls |-> calls, err |-> "KeyError"]
             ELSE LET g == get_default(defaults[k], calls)
                  IN  IF g.v = MissingValue
                      THEN [d |-> d, calls |-> g.calls, err |-> "ValueError"]
                      ELSE ReplaceDefaults(table, defaults, items, n + 1,
                                           [d EXCEPT ![k] = g.v], g.calls)

\* cls.__init__(self, va, vb) when __init__ carries hooks wrappers of
\* replace_defaults_hook: the declared constructor runs first, then the loop
\* of each wrapper from the innermost out
RECURSIVE RunHooks(_, _, _, _, _)
RunHooks(hooks, table, defaults, d, calls) ==
    IF hooks = 0 THEN [d |-> d, calls |-> calls, err |-> "ok"]
    ELSE LET r == ReplaceDefaults(table, defaults, attributes(d), 1, d, calls)
         IN  IF r.err # "ok" THEN r
             ELSE RunHooks(hooks - 1, table, defaults, r.d, r.calls)

\* the number of wrappers around cls.__init__ after __new__ of the engine
HooksAfterNew(engine, table, defaults, hooks) ==
    IF engine = "TypedAttrs" /\ any_has_default(table, defaults) THEN hooks + 1 ELSE hooks

(* ---------------------------------------------------------------------- *)
(* Actions on the typed class                                              *)
(* ---------------------------------------------------------------------- *)
TypedDone(op, self, other, eq, hself, hother) ==
    /\ tres' = [op |-> op, self |-> self, other |-> other, eq |-> eq,
                hself |-> hself, hother |-> hother, err |-> "ok"]
    /\ UNCHANGED <<frozenVars, markerVars, aboutVars>>

\* class P(engine):
\*     def __init__(self, a: <Attribute(**da)>, b: <Attribute(**db)>):
\*         self.a = a; self.b = b
TypedClass(engine, kind, da, db) ==
    /\ tdecl = NoTyped
    /\ tdecl' = [engine |-> engine, kind |-> kind, a |-> da, b |-> db]
    /\ TypedDone("class", NoObj, NoObj, None, <<None>>, <<None>>)
    /\ UNCHANGED <<tattrs, tinst, tdefault, thooks, tstores, tcalls>>

\* class P(engine):
\*     def __init__(self, a: <Attribute(compare=True, **dfa)>,
\*                  b: <Attribute(compare=True, **dfb)>):
\*         self.a = a; self.b = b
\* Only the Attribute of typedattrs.py takes default and default_factory.
TypedClassDefaults(engine, kind, dfa, dfb) ==
    /\ tdecl = NoTyped
    /\ engine = "Typed" => dfa = MissingValue /\ dfb = MissingValue
    /\ tdecl' = [engine |-> engine, kind |-> kind,
                 a |-> [compare |-> "True", hash |-> None],
                 b |-> [compare |-> "True", hash |-> None]]
    /\ tdefault' = [a |-> dfa, b |-> dfb]
    /\ TypedDone("class", NoObj, NoObj, None, <<None>>, <<None>>)
    /\ UNCHANGED <<tattrs, tinst, thooks, tstores, tcalls>>

\* i = P(va, vb): __new__ stores a new table on the class and, in
\* TypedAttrs, wraps __init__ when a default is declared; then __init__
\* assigns and its wrappers replace the placeholders.  The object is dropped
\* when __init__ raises.
TypedNew(i, va, vb) ==
    /\ tdecl # NoTyped
    /\ ~tinst[i].made
    /\ tstores < MaxConstructions
    /\ LET table == Typed__new__(tdecl)
           hooks == HooksAfterNew(tdecl.engine, table, tdefault, thooks)
           r == RunHooks(hooks, table, tdefault, [a |-> va, b |-> vb], tcalls)
       IN  /\ tattrs' = table
           /\ tstores' = tstores + 1
           /\ thooks' = hooks
           /\ tcalls' = r.calls
           /\ tinst' = IF r.err = "ok"
                       THEN [tinst EXCEPT ![i] = [made |-> TRUE, a |-> r.d.a, b |-> r.d.b]]
                       ELSE tinst
           /\ tres' = [op |-> "new", self |-> i, other |-> NoObj, eq |-> None,
                       hself |-> <<None>>, hother |-> <<None>>, err |-> r.err]
    /\ UNCHANGED <<frozenVars, markerVars, aboutVars, tdecl, tdefault>>

\* del i.k
TypedDel(i, k) ==
    /\ tinst[i].made
    /\ tinst[i][k] # Absent
    /\ tinst' = [tinst EXCEPT ![i][k] = Absent]
    /\ TypedDone("del", i, NoObj, None, <<None>>, <<None>>)
    /\ UNCHANGED <<tdecl, tattrs, tdefault, thooks, tstores, tcalls>>

\* self == other, hash(self) and hash(other) are evaluated
TypedCompare(self, other) ==
    /\ tinst[self].made
    /\ tinst[other].made
    /\ TypedDone("cmp", self, other,
                 EqOperator(tdecl.engine, tattrs, tinst, self, other),
                 HashOperator(tdecl.engine, tattrs, tinst, self),
                 HashOperator(tdecl.engine, tattrs, tinst, other))
    /\ UNCHANGED <<tdecl, tattrs, tinst, tdefault, thooks, tstores, tcalls>>

NextTyped ==
    \/ \E engine \in Engines, kind \in AnnotationKinds,
          da \in [compare : Directives, hash : Directives],
          db \in [compare : Directives, hash : {None}] : TypedClass(engine, kind, da, db)
    \/ \E i \in TypedInsts, va \in TypedValues, vb \in TypedValues : TypedNew(i, va, vb)
    \/ \E i \in TypedInsts, k \in {"a", "b"} : TypedDel(i, k)
    \/ \E i \in TypedInsts, j \in TypedInsts : TypedCompare(i, j)

SpecTyped == Init /\ [][NextTyped]_vars

\* what a construction passes for a parameter: a value or the placeholder
DefaultsArgs == {"1", DefaultValue}

\* One class whose parameters declare defaults, and constructions that pass
\* values or the placeholder
NextDefaults ==
    \/ \E engine \in Engines, kind \in AnnotationKinds,
          dfa \in DefaultKinds, dfb \in DefaultKinds : TypedClassDefaults(engine, kind, dfa, dfb)
    \/ \E i \in TypedInsts, va \in DefaultsArgs, vb \in DefaultsArgs : TypedNew(i, va, vb)

SpecDefaults == Init /\ [][NextDefaults]_vars

(* ---------------------------------------------------------------------- *)
(* Properties of the typed-attribute engines                               *)
(* ---------------------------------------------------------------------- *)
\* the directives as declared: k is included in equality, in hashing
Compared(k) == tdecl[k].compare = "True"
Hashed(k) ==
    \/ tdecl[k].hash = "True"
    \/ tdecl[k].hash = None /\ tdecl[k].compare = "True"

Complete(i) == tinst[i].a # Absent /\ tinst[i].b # Absent
Compares == tres.op = "cmp"
AgreeOn(k) == tinst[tres.self][k] = tinst[tres.other][k]

\* C17: two instances that differ only in fields excluded from comparison
\* (and from hashing) compare equal and have equal hashes, and two instances
\* that compare equal have equal hashes.
C17_EqualImpliesEqualHash ==
    Compares =>
        /\ ( /\ \E k \in {"a", "b"} : Compared(k)
             /\ Complete(tres.self) /\ Complete(tres.other)
             /\ \A k \in {"a", "b"} : Compared(k) \/ Hashed(k) => AgreeOn(k) )
              => tres.eq = "True" /\ tres.hself = tres.hother
        /\ tres.eq = "True" => tres.hself = tres.hother

\* C18: when a field declared comparable is absent on the compared object,
\* equality raises MissingTypedAttribute, whatever the values of the other
\* fields and whatever the position of the field.
C18_MissingComparableRaises ==
    ( /\ Compares
      /\ Complete(tres.self)
      /\ \E k \in {"a", "b"} : Compared(k) /\ tinst[tres.other][k] = Absent )
        => tres.eq = "MissingTypedAttribute"

\* C19: when every declared field is excluded from comparison, x == y holds
\* exactly when x and y are the same object, for both engines.
C19_AllExcludedIsIdentity ==
    ( /\ Compares
      /\ \A k \in {"a", "b"} : ~Compared(k) /\ ~Hashed(k) )
        => tres.eq = IF tres.self = tres.other THEN "True" ELSE "False"

\* C20: a field takes part in equality exactly when its compare directive is
\* true and in hashing exactly when its hash directive is true, or unset with
\* compare true: of two instances that differ in the field a only, b being
\* compared, equality is false exactly when a is compared and the hashes differ
\* exactly when a is hashed.
C20_DirectivesDecideParticipation ==
    ( /\ Compares
      /\ tres.self # tres.other
      /\ Complete(tres.self) /\ Complete(tres.other)
      /\ Compared("b") /\ AgreeOn("b") /\ ~AgreeOn("a") )
        => /\ tres.eq = "False" <=> Compared("a")
           /\ tres.hself # tres.hother <=> Hashed("a")

\* the fields declared hashable, in declaration order
HashedFields == SelectSeq(TypedFields, Hashed)

\* the hash of the tuple of the hashable-declared values of i, or the hash of
\* the identity of i when no field is declared hashable
DeclaredHash(i) ==
    IF HashedFields = <<>> THEN <<"id", i>>
    ELSE <<"tuple">> \o [n \in 1..Len(HashedFields) |-> tinst[i][HashedFields[n]]]

\* C21: hash(x) of an instance that holds all its fields is the hash of the
\* tuple of its hashable-declared field values in declaration order, and the
\* identity hash, without failing, when no field is declared hashable; for
\* both engines.
C21_HashOfHashableFields ==
    (Compares /\ Complete(tres.self)) => tres.hself = DeclaredHash(tres.self)

\* the value the step gave field k of i is an object that no field held
\* before and that no other field holds after it
Fresh(i, k) ==
    /\ tinst'[i][k] \notin {DefaultValue, MissingValue, DeclaredDefault} \cup TypedValues
    /\ \A j \in TypedInsts, f \in {"a", "b"} :
          /\ tinst[j][f] # tinst'[i][k]
          /\ (j # i \/ f # k) => tinst'[j][f] # tinst'[i][k]

\* C22: a construction of a TypedAttrs class that passes the placeholder for
\* a field that declares neither default nor default_factory ends with
\* ValueError and makes no instance; every other construction succeeds, keeps
\* the values passed, sets each placeholder field that declares a default to
\* that default and each that declares a default_factory to a fresh result.
C22_DefaultsInjected ==
    [][ (tres'.op = "new" /\ tdecl.engine = "TypedAttrs") =>
          \A i \in TypedInsts, va \in DefaultsArgs, vb \in DefaultsArgs :
            TypedNew(i, va, vb) =>
              LET arg == [a |-> va, b |-> vb]
                  needs == {k \in {"a", "b"} : arg[k] = DefaultValue}
              IN  IF \E k \in needs : tdefault[k] = MissingValue
                  THEN tres'.err = "ValueError" /\ ~tinst'[i].made
                  ELSE /\ tres'.err = "ok"
                       /\ tinst'[i].made
                       /\ \A k \in {"a", "b"} :
                             /\ k \notin needs => tinst'[i][k] = arg[k]
                             /\ (k \in needs /\ tdefault[k] = "default") =>
                                   tinst'[i][k] = DeclaredDefault
                             /\ (k \in needs /\ tdefault[k] = "default_factory") =>
                                   Fresh(i, k) ]_vars

\* C28: the table is collected once per class: a construction made when the
\* class already has its table stores no new table and adds no wrapper to
\* the constructor, and the constructor never carries more than one wrapper.
C28_TableCollectedOnce ==
    [][ tres'.op = "new" =>
          /\ tattrs.set => (tstores' = tstores /\ tattrs' = tattrs /\ thooks' = thooks)
          /\ thooks' <= 1 ]_vars

(* ====================================================================== *)
(* __about__.py: Version.from_str.  A str is a sequence of characters; the *)
(* two patterns are matched as re.match matches them, from the start of    *)
(* the string, with re.MULTILINE.                                          *)
(* ====================================================================== *)
MaxVersionLen == 6

VersionChars == {"0", "1", ".", "a", "r", "c", "-", "\n"}
VersionDigits == {"0", "1"}
VersionStrings == UNION {[1..n -> VersionChars] : n \in 0..MaxVersionLen}

\* str.isalpha of one character
isalpha(c) == c \in {"a", "b", "r", "c"}

\* \d+ from position p: the position after the longest run of digits
RECURSIVE DigitsEnd(_, _)
DigitsEnd(s, p) ==
    IF p <= Len(s) /\ s[p] \in VersionDigits THEN DigitsEnd(s, p + 1) ELSE p

\* int() of a run of decimal digits
RECURSIVE int(_)
int(ds) ==
    IF ds = <<>> THEN 0
    ELSE 10 * int(SubSeq(ds, 1, Len(ds) - 1)) + (IF ds[Len(ds)] = "1" THEN 1 ELSE 0)

\* (a|b|rc) at position p: the stage and the position after it, 0 for no match
StageAt(s, p) ==
    IF p <= Len(s) /\ s[p] \in {"a", "b"} THEN [stage |-> s[p], end |-> p + 1]
    ELSE IF p < Len(s) /\ s[p] = "r" /\ s[p + 1] = "c" THEN [stage |-> "rc", end |-> p + 2]
    ELSE [stage |-> None, end |-> 0]

\* $ under re.MULTILINE at position p: the end of the string or of a line
EndOfLine(s, p) == p > Len(s) \/ s[p] = "\n"

NoMatch == [matched |-> FALSE, major |-> <<>>, minor |-> <<>>, stage |-> None, serial |-> <<>>]

\* re.match(_final_pattern, s): the groups of ^(\d+)\.(\d+)
final_match(s) ==
    LET p1 == DigitsEnd(s, 1)
        p2 == DigitsEnd(s, p1 + 1)
    IN  IF p1 = 1 \/ p1 > Len(s) \/ s[p1] # "." \/ p2 = p1 + 1 THEN NoMatch
        ELSE [matched |-> TRUE, major |-> SubSeq(s, 1, p1 - 1),
              minor |-> SubSeq(s, p1 + 1, p2 - 1), stage |-> None, serial |-> <<>>]

\* re.match(_indev_pattern, s): the groups of ^(\d+)\.(\d+)(a|b|rc)(\d+)$
indev_match(s) ==
    LET f == final_match(s)
        p2 == Len(f.major) + Len(f.minor) + 2
        st == StageAt(s, p2)
        p4 == DigitsEnd(s, st.end)
    IN  IF ~f.matched \/ st.end = 0 \/ p4 = st.end \/ ~EndOfLine(s, p4) THEN NoMatch
        ELSE [f EXCEPT !.stage = st.stage, !.serial = SubSeq(s, st.end, p4 - 1)]

\* len(version_str.split("."))
SplitLen(s) == 1 + Cardinality({p \in 1..Len(s) : s[p] = "."})

\* Version.from_str
from_str(s) ==
    LET m == indev_match(s)
        f == final_match(s)
    IN  IF m.matched
        THEN [op |-> "from_str", err |-> "ok", major |-> int(m.major), minor |-> int(m.minor),
              serial |-> int(m.serial), stage |-> m.stage]
        ELSE IF ~f.matched \/ (\E p \in 1..Len(s) : isalpha(s[p])) \/ SplitLen(s) > 2
        THEN [op |-> "from_str", err |-> "ValueError", major |-> 0, minor |-> 0, serial |-> 0,
              stage |-> None]
        ELSE [op |-> "from_str", err |-> "ok", major |-> int(f.major), minor |-> int(f.minor),
              serial |-> 0, stage |-> None]

\* Version.from_str(vstr)
FromStr ==
    /\ vres.op = "import"
    /\ vres' = from_str(vstr)
    /\ UNCHANGED <<frozenVars, markerVars, typedVars, vstr>>

NextVersion == FromStr

\* the string is any string over VersionChars of at most MaxVersionLen characters
InitVersion ==
    /\ InitObjects
    /\ vstr \in VersionStrings
    /\ vres = NoVersion

SpecVersion == InitVersion /\ [][NextVersion]_vars

\* a non-empty run of digits
AllDigits(ds) == ds # <<>> /\ \A p \in 1..Len(ds) : ds[p] \in VersionDigits

StageChars(stage) ==
    CASE stage = "a" -> <<"a">>
      [] stage = "b" -> <<"b">>
      [] stage = "rc" -> <<"r", "c">>
      [] OTHER -> <<>>

\* the ways to read s as <digits>.<digits> (stage None) or as
\* <digits>.<digits>(a|b|rc)<digits>: the position of the dot, the position
\* after the minor digits, and the stage
VersionForms(s) ==
    {q \in [dot : 1..Len(s), st : 1..(Len(s) + 1), stage : {None, "a", "b", "rc"}] :
        LET slen == Len(StageChars(q.stage))
        IN  /\ s[q.dot] = "."
            /\ q.st > q.dot
            /\ AllDigits(SubSeq(s, 1, q.dot - 1))
            /\ AllDigits(SubSeq(s, q.dot + 1, q.st - 1))
            /\ IF q.stage = None THEN q.st = Len(s) + 1
               ELSE /\ q.st + slen - 1 <= Len(s)
                    /\ SubSeq(s, q.st, q.st + slen - 1) = StageChars(q.stage)
                    /\ AllDigits(SubSeq(s, q.st + slen, Len(s)))}

\* C23: Version.from_str raises ValueError for every string that is of
\* neither form, and for a string of one of the forms returns the Version
\* with the major, minor, stage and serial the string spells, a final
\* version having stage None and serial 0.
C23_FromStrForms ==
    vres.op = "from_str" =>
        /\ VersionForms(vstr) = {} => vres.err = "ValueError"
        /\ \A q \in VersionForms(vstr) :
              LET slen == Len(StageChars(q.stage))
              IN  /\ vres.err = "ok"
                  /\ vres.major = int(SubSeq(vstr, 1, q.dot - 1))
                  /\ vres.minor = int(SubSeq(vstr, q.dot + 1, q.st - 1))
                  /\ vres.stage = q.stage
                  /\ vres.serial = IF q.stage = None THEN 0
                                   ELSE int(SubSeq(vstr, q.st + slen, Len(vstr)))

(* ====================================================================== *)
(* frozen.py: the whitelist and the caller of the guard                    *)
(* ====================================================================== *)
\* getattr(ref, THAWED_ATTRS, ()): the names the guard looks the caller up in
GuardWhitelist(w, ref) ==
    LET thawed == GetAttr(w, ref, THAWED_ATTRS)
    IN  IF thawed = Absent \/ ~IsSet(thawed) THEN {} ELSE w.hp[thawed]

\* Class statements of both variants, and freeze and thaw calls
NextWhitelist ==
    \/ \E c \in {"A", "B"}, fd \in FlagDecls, td \in ThawedDecls : ClassThawable(c, fd, td)
    \/ \E c \in {"F", "G"}, fd \in FlagDecls : ClassFrozen(c, fd)
    \/ FreezeThaw({"A", "B"})

SpecWhitelist == Init /\ [][NextWhitelist]_vars

\* the names a class body declares as thawed
DeclaredThawed(td) ==
    IF td = NoDecl THEN {} ELSE IF td = "literal" THEN DeclaredNames ELSE heap[td]

\* C24: the whitelist of a class of either variant is, when its class
\* statement completes, the union of the names its body declares and the
\* built-in defaults, and after every freeze and thaw call the whitelist of
\* every defined class contains the built-in defaults.
C24_WhitelistKeepsDefaults ==
    [][ /\ \A c \in {"A", "B"}, fd \in FlagDecls, td \in ThawedDecls :
              (ClassThawable(c, fd, td) /\ last'.err = "ok") =>
                  GuardWhitelist(World', c) = DeclaredThawed(td) \cup THAWED_DEFAULTS
        /\ \A c \in {"F", "G"}, fd \in FlagDecls :
              (ClassFrozen(c, fd) /\ last'.err = "ok") =>
                  GuardWhitelist(World', c) = THAWED_DEFAULTS
        /\ \A c \in defined' : THAWED_DEFAULTS \subseteq GuardWhitelist(World', c) ]_vars

\* cls.__thawed_attrs__ |= attrs evaluated in a function named co_name, as
\* line 340 is in thaw: the set is read, updated in place by set.__ior__,
\* and assigned back through the guard
ior_thawed(w, cls, co_name, attrs) ==
    LET cur == GetAttr(w, cls, THAWED_ATTRS)
    IN  IF cur = Absent THEN Outcome(w, "AttributeError", NoObj)
        ELSE IF ~IsSet(cur) THEN Outcome(w, "TypeError", NoObj)
        ELSE __frozen_setattr__([w EXCEPT !.hp[cur] = @ \cup attrs],
                                cls, co_name, THAWED_ATTRS, cur)

ThawedIor(c, co_name, attrs) ==
    /\ c \in defined \cap ThawableClasses
    /\ Done("ior", c, co_name, ior_thawed(World, c, co_name, attrs))
    /\ UNCHANGED defined

\* the names a function may add to the whitelist: its own, another
IorNames == {{"bar"}, {"asfb"}}

\* One user class of the thawable variant, its instances, and functions that
\* update the whitelist as thaw does
NextGuard ==
    \/ Next
    \/ \E co \in Callers, attrs \in IorNames : ThawedIor("A", co, attrs)

SpecGuard == Init /\ [][NextGuard]_vars

IorBy(c, co) == \E attrs \in IorNames : ThawedIor(c, co, attrs)

\* C25: while the class is frozen, a set, a delete or an update of the
\* whitelist made by a function that is not in the whitelist changes neither
\* the flag of the class nor the contents of its whitelist, and when it is
\* made on the class it ends with FrozenObjectError naming the class.
C25_MetadataOnlyThroughGuard ==
    [][ ("A" \in defined /\ clsDict["A"][FROZEN_FLAG] = "True") =>
          \A co \in Callers \ Whitelist("A") :
              /\ \A ref \in TargetsOf("A") :
                    (SetBy(ref, co) \/ DelBy(ref, co)) =>
                        /\ clsDict'["A"][FROZEN_FLAG] = clsDict["A"][FROZEN_FLAG]
                        /\ clsDict'["A"][THAWED_ATTRS] = clsDict["A"][THAWED_ATTRS]
                        /\ Whitelist("A")' = Whitelist("A")
                        /\ ref = "A" => Rejected("A")
              /\ IorBy("A", co) =>
                    /\ Rejected("A")
                    /\ Whitelist("A")' = Whitelist("A") ]_vars

\* C29: no step removes a name from the whitelist of the class; thaw(names)
\* leaves the flag as it is; freeze and thaw() leave the whitelist as it is;
\* and in the state a successful freeze leaves, a function whose name was
\* thawed before can still set an attribute of the class and of each of its
\* instances.
C29_WhitelistNeverShrinks ==
    [][ "A" \in defined =>
          /\ Whitelist("A") \subseteq Whitelist("A")'
          /\ last'.op = "thaw_attrs" =>
                clsDict'["A"][FROZEN_FLAG] = clsDict["A"][FROZEN_FLAG]
          /\ last'.op \in {"freeze", "thaw"} =>
                /\ Whitelist("A")' = Whitelist("A")
                /\ clsDict'["A"][THAWED_ATTRS] = clsDict["A"][THAWED_ATTRS]
          /\ (last'.op = "freeze" /\ last'.err = "ok") =>
                \A name \in Whitelist("A") \ THAWED_DEFAULTS, ref \in TargetsOf("A") :
                    /\ is_frozen(World', "A") = "True"
                    /\ __frozen_setattr__(World', ref, name, "value", "123").err = "ok" ]_vars

\* foo was thawed, the class was frozen again by a successful freeze, and
\* the class has an instance
C29_Witness ==
    /\ last.op = "freeze" /\ last.ref = "A" /\ last.err = "ok"
    /\ clsDict["A"][FROZEN_FLAG] = "True"
    /\ "foo" \in Whitelist("A")
    /\ Live # {}

(* ---------------------------------------------------------------------- *)
(* The caller of the guard.  A set or a delete is reached through a chain  *)
(* of Python functions; each frame has the name of its function (co_name)  *)
(* and the class or module that owns the function.                         *)
(* ---------------------------------------------------------------------- *)
Owners == {"A", "other"}
Frames == [co_name : Callers, owner : Owners]
\* a function called directly, or a method of the class calling a function
\* of another module
Stacks ==
    {<<f>> : f \in Frames} \cup
    {<<f, g>> : f \in {h \in Frames : h.owner = "A"}, g \in {h \in Frames : h.owner = "other"}}

\* sys._getframe().f_back seen from the guard, taken as the outermost frame
f_back_outermost(stack) == stack[1]

\* sys._getframe().f_back seen from the guard: the frame of the function
\* that made the assignment
f_back(stack) == stack[Len(stack)]

\* setattr(ref, key, value) or ref[key] = value, made by the innermost
\* function of stack
SetAttrVia(slot, ref, stack, key, value) ==
    /\ slot \in SetSlots
    /\ ref \in defined \cup Live
    /\ Finish("set", ref, f_back(stack).co_name,
              __frozen_setattr__(World, ref, f_back(stack).co_name, key, value))
    /\ frames' = stack
    /\ UNCHANGED defined

\* delattr(ref, item) or del ref[item], made by the innermost function of stack
DelAttrVia(slot, ref, stack, item) ==
    /\ slot \in DelSlots
    /\ ref \in defined \cup Live
    /\ Finish("del", ref, f_back(stack).co_name,
              __frozen_delattr__(World, ref, f_back(stack).co_name, item))
    /\ frames' = stack
    /\ UNCHANGED defined

\* One user class of the thawable variant, one instance of it, and sets and
\* deletes made through chains of calls
NextStack ==
    \/ \E fd \in FlagDecls, td \in ThawedDecls : ClassThawable("A", fd, td)
    \/ NewInstance("A", "i1", <<>>)
    \/ \E strict \in BOOLEAN : Freeze("A", strict)
    \/ Thaw("A")
    \/ ThawAttrs("A", {"foo"}, TRUE)
    \/ \E ref \in {"A", "i1"}, stack \in Stacks, kv \in Writes :
          SetAttrVia("__setattr__", ref, stack, kv[1], kv[2])
    \/ \E ref \in {"A", "i1"}, stack \in Stacks, k \in MutKeys :
          DelAttrVia("__delattr__", ref, stack, k)

SpecStack == Init /\ [][NextStack]_vars

AtRegisteredLookup(t) == thr[t].pc = "lookup" /\ thr[t].key \in DOMAIN _sinstances

\* C27: a construction whose key is in the registry can take its look-up
\* step whoever holds the lock, and that step returns the registered object,
\* allocates nothing and leaves the lock and the registry as they are.
C27_RegisteredReadNeedsNoLock ==
    /\ [](\A t \in Threads : AtRegisteredLookup(t) => ENABLED ThreadLookup(t))
    /\ [][ \A t \in Threads :
              (AtRegisteredLookup(t) /\ thr'[t] # thr[t]) =>
                  /\ thr'[t].pc = "done"
                  /\ thr'[t].ret = _sinstances[thr[t].key]
                  /\ thr'[t].sentinel = 0
                  /\ UNCHANGED <<_lock, _sinstances, sobjs>> ]_vars

\* t1 has returned, without allocating, the object that t2 allocated and
\* registered, while t2 still holds the lock it registered it under
C27_Witness ==
    /\ thr["t1"].pc = "done" /\ thr["t1"].sentinel = 0
    /\ thr["t2"].pc = "release" /\ _lock = "t2"
    /\ thr["t1"].key = thr["t2"].key
    /\ thr["t1"].ret = thr["t2"].sentinel

\* C30: the lock is held by a thread exactly while it is at the setdefault or
\* at the end of the with block, a thread that has returned holds an object,
\* and every construction that has begun returns.
C30_ConstructionTerminates ==
    /\ [](\A t \in Threads : _lock = t <=> thr[t].pc \in {"locked", "release"})
    /\ [](\A t \in Threads : thr[t].pc = "done" => thr[t].ret \in 1..Len(sobjs))
    /\ \A t \in Threads : thr[t].pc \notin {"idle", "done"} ~> thr[t].pc = "done"

\* t2 waits for the lock that t1 holds for the insert of another key
C30_Witness ==
    /\ thr["t1"].pc = "locked" /\ _lock = "t1"
    /\ thr["t2"].pc = "acquire"
    /\ thr["t1"].key # thr["t2"].key
====
